---- MODULE Spec2Model ----
(***************************************************************************)
(* A model of toasty/tile.py: the TOAST quadtree traversal (iter_corners,  *)
(* _postfix_corner, _div4, _parent) and the pyramid driver and assembler   *)
(* (iter_tiles, _trickle_up, _default_merge, depth2tiles).                 *)
(*                                                                         *)
(* The two generators are modelled as explicit state machines: the frames  *)
(* of the recursive generator _postfix_corner are the variable stack, and  *)
(* one action models one invocation of _trickle_up.                        *)
(***************************************************************************)
EXTENDS Integers, Sequences, FiniteSets, TLC

\* Largest depth argument explored.
MaxDepth == 3

\* Side length, in pixels, of a tile image (256 in the program).
TileSize == 2

\* depth arguments explored, a negative one and zero included
Depths == -1 .. MaxDepth

\* the values of the merge argument: True, False, or a callable
Merges == {"True", "False", "Custom"}

\* the data_sampler arguments explored (see data_sampler below)
Samplers == {"index", "lon"}

----------------------------------------------------------------------------
(* Points of the sphere.  A point is identified by its position <<u, v>> in *)
(* the TOAST projection plane, in which the four root faces are the four    *)
(* quadrants of a square of side 2 * Face with the north pole at its centre *)
(* and the south pole at its four corners.                                  *)

\* side of a root face, in units fine enough for every midpoint and pixel
Face == TileSize * 2 ^ (MaxDepth + 1)

\* mid(a, b): the midpoint of two points
mid(a, b) == << (a[1] + b[1]) \div 2, (a[2] + b[2]) \div 2 >>

\* level1[i]: the corners (ul, ur, lr, ll) of the i-th root face.
\* (lon, lat) in degrees of the source -> plane position:
\*   (0,-90) the south pole -> the outer corner of the face
\*   (0, 90) the north pole -> <<Face, Face>>
\*   (90,0) -> <<Face, 0>>        (0,0)   -> <<2 * Face, Face>>
\*   (180,0) -> <<0, Face>>       (270,0) -> <<Face, 2 * Face>>
level1 ==
  << << <<0, 0>>, <<Face, 0>>, <<Face, Face>>, <<0, Face>> >>,
     << <<Face, 0>>, <<2 * Face, 0>>, <<2 * Face, Face>>, <<Face, Face>> >>,
     << <<Face, Face>>, <<2 * Face, Face>>, <<2 * Face, 2 * Face>>,
        <<Face, 2 * Face>> >>,
     << <<0, Face>>, <<Face, Face>>, <<Face, 2 * Face>>, <<0, 2 * Face>> >> >>

Pos(n, x, y) == [n |-> n, x |-> x, y |-> y]

\* a tile is the tuple (pos, corners, increasing) of the source
Tile(pos, c, increasing) == [pos |-> pos, c |-> c, increasing |-> increasing]

----------------------------------------------------------------------------
(* Subdivision and addressing *)

\* a mistaken _div4 whose children get the other diagonal than their parent
div4Flipped(pos, c, increasing) ==
  LET n == pos.n
      x == pos.x
      y == pos.y
      ul == c[1]
      ur == c[2]
      lr == c[3]
      ll == c[4]
      to == mid(ul, ur)
      ri == mid(ur, lr)
      bo == mid(lr, ll)
      le == mid(ll, ul)
      ce == IF increasing THEN mid(ll, ur) ELSE mid(ul, lr)
  IN  << Tile(Pos(n + 1, 2 * x, 2 * y), <<ul, to, ce, le>>, ~increasing),
         Tile(Pos(n + 1, 2 * x + 1, 2 * y), <<to, ur, ri, ce>>, ~increasing),
         Tile(Pos(n + 1, 2 * x, 2 * y + 1), <<le, ce, bo, ll>>, ~increasing),
         Tile(Pos(n + 1, 2 * x + 1, 2 * y + 1), <<ce, ri, lr, bo>>,
              ~increasing) >>

\* _div4(pos, c, increasing): the four children of a tile, in order
_div4(pos, c, increasing) ==
  LET n == pos.n
      x == pos.x
      y == pos.y
      ul == c[1]
      ur == c[2]
      lr == c[3]
      ll == c[4]
      to == mid(ul, ur)
      ri == mid(ur, lr)
      bo == mid(lr, ll)
      le == mid(ll, ul)
      ce == IF increasing THEN mid(ll, ur) ELSE mid(ul, lr)
  IN  << Tile(Pos(n + 1, 2 * x, 2 * y), <<ul, to, ce, le>>, increasing),
         Tile(Pos(n + 1, 2 * x + 1, 2 * y), <<to, ur, ri, ce>>, increasing),
         Tile(Pos(n + 1, 2 * x, 2 * y + 1), <<le, ce, bo, ll>>, increasing),
         Tile(Pos(n + 1, 2 * x + 1, 2 * y + 1), <<ce, ri, lr, bo>>,
              increasing) >>

\* a mistaken _parent that halves x for the parent's row
parentOfColumn(child) ==
  LET parent == Pos(child.n - 1, child.x \div 2, child.x \div 2)
      left == child.x % 2
      top == child.y % 2
  IN  <<parent, left, top>>

\* _parent(child): the parent's address and the corner the child occupies
_parent(child) ==
  LET parent == Pos(child.n - 1, child.x \div 2, child.y \div 2)
      left == child.x % 2
      top == child.y % 2
  IN  <<parent, left, top>>

\* the list todo of iter_corners: the four root tiles in traversal order
todo ==
  << Tile(Pos(1, 0, 0), level1[1], TRUE),
     Tile(Pos(1, 1, 0), level1[2], FALSE),
     Tile(Pos(1, 1, 1), level1[3], TRUE),
     Tile(Pos(1, 0, 1), level1[4], FALSE) >>

\* depth2tiles(depth)
depth2tiles(depth) == (4 ^ (depth + 1) - 1) \div 3

----------------------------------------------------------------------------
VARIABLES
  depth,        \* iter_tiles: the depth argument
  merge,        \* iter_tiles: the merge argument
  sampler,      \* iter_tiles: the data_sampler argument
  cdepth,       \* iter_corners: the depth argument
  bottom_only,  \* iter_corners: the bottom_only argument (its truth value)
  t,            \* iter_corners: number of entries of todo already started
  stack,        \* the active _postfix_corner frames, innermost last
  produced,     \* the sequence of tiles iter_corners has yielded
  pc,           \* where the run stands
  cur,          \* the arguments (im, node) of the pending _trickle_up call
  parents,      \* iter_tiles: the dictionary parents
  out,          \* the sequence of (pth, img) pairs iter_tiles has yielded
  sampled,      \* the log of the calls of data_sampler
  merged,       \* the log of the calls of the merge function
  self,         \* the run whose state the variables above hold: its number
                \* and the identity of the object its name parents refers to
  other         \* the state of a second, suspended run of iter_tiles, if any

vars == << depth, merge, sampler, cdepth, bottom_only, t, stack, produced,
           pc, cur, parents, out, sampled, merged, self, other >>

tilevars == << depth, merge, sampler, cur, parents, out, sampled, merged,
               self, other >>

Top == stack[Len(stack)]

Pop == SubSeq(stack, 1, Len(stack) - 1)

NoCall == [im |-> << >>, node |-> Pos(0, 0, 0)]

\* a mistaken line 141 that hands every call the same dictionary
NewDictShared(id) == 0

\* line 141: parents = defaultdict(dict) makes a new object for every call
\* of iter_tiles
NewDict(id) == id

\* no second run
NoRun == [pc |-> "none"]

----------------------------------------------------------------------------
(* iter_corners and _postfix_corner *)

\* iter_corners, line 105-106: call _postfix_corner on the next root
StartRoot ==
  /\ pc = "walk"
  /\ stack = << >>
  /\ t < Len(todo)
  /\ t' = t + 1
  /\ stack' = << [tile |-> todo[t + 1], k |-> 0] >>
  /\ UNCHANGED << cdepth, bottom_only, produced, pc >>
  /\ UNCHANGED tilevars

\* a mistaken test of line 41: if n >= depth: return
TooDeepOffByOne(n) == n >= cdepth

\* a mistaken test of line 41 that lets the roots through at any depth
TooDeepBelowRoots(n) == n > cdepth /\ n > 1

\* the test of line 41
TooDeep(n) == n > cdepth

\* _postfix_corner, line 41-42: a tile deeper than depth yields nothing
Prune ==
  /\ pc = "walk"
  /\ stack # << >>
  /\ TooDeep(Top.tile.pos.n)
  /\ stack' = Pop
  /\ UNCHANGED << cdepth, bottom_only, t, produced, pc >>
  /\ UNCHANGED tilevars

\* _postfix_corner, line 44-45: recurse into the next child
Descend ==
  /\ pc = "walk"
  /\ stack # << >>
  /\ ~TooDeep(Top.tile.pos.n)
  /\ Top.k < 4
  /\ LET f == Top
         child == _div4(f.tile.pos, f.tile.c, f.tile.increasing)[f.k + 1]
     IN  stack' = Append(Pop, [f EXCEPT !.k = f.k + 1])
                    \o << [tile |-> child, k |-> 0] >>
  /\ UNCHANGED << cdepth, bottom_only, t, produced, pc >>
  /\ UNCHANGED tilevars

\* a mistaken test of line 48: if n == depth or bottom_only
YieldsInverted(n) == n = cdepth \/ bottom_only

\* the test of line 48
Yields(n) == n = cdepth \/ ~bottom_only

\* a mistaken _postfix_corner that yields the tile before it walks the last
\* child
YieldTileEarly ==
  /\ pc = "walk"
  /\ stack # << >>
  /\ ~TooDeep(Top.tile.pos.n)
  /\ Top.k = 3
  /\ Yields(Top.tile.pos.n)
  /\ produced' = Append(produced, Top.tile)
  /\ LET f == Top
         child == _div4(f.tile.pos, f.tile.c, f.tile.increasing)[4]
     IN  stack' = Append(Pop, [tile |-> child, k |-> 0])
  /\ pc' = "yielded"
  /\ UNCHANGED << cdepth, bottom_only, t >>
  /\ UNCHANGED tilevars

\* _postfix_corner, line 48-49: after the children, yield the tile itself
YieldTile ==
  /\ pc = "walk"
  /\ stack # << >>
  /\ ~TooDeep(Top.tile.pos.n)
  /\ Top.k = 4
  /\ Yields(Top.tile.pos.n)
  /\ produced' = Append(produced, Top.tile)
  /\ stack' = Pop
  /\ pc' = "yielded"
  /\ UNCHANGED << cdepth, bottom_only, t >>
  /\ UNCHANGED tilevars

\* _postfix_corner, line 48 false: the tile is not yielded
Skip ==
  /\ pc = "walk"
  /\ stack # << >>
  /\ ~TooDeep(Top.tile.pos.n)
  /\ Top.k = 4
  /\ ~Yields(Top.tile.pos.n)
  /\ stack' = Pop
  /\ UNCHANGED << cdepth, bottom_only, t, produced, pc >>
  /\ UNCHANGED tilevars

\* iter_corners, line 105: todo is exhausted, the generator ends
Finish ==
  /\ pc = "walk"
  /\ stack = << >>
  /\ t = Len(todo)
  /\ pc' = "done"
  /\ UNCHANGED << cdepth, bottom_only, t, stack, produced >>
  /\ UNCHANGED tilevars

\* a consumer of iter_corners alone takes the item and asks for the next
Consume ==
  /\ pc = "yielded"
  /\ pc' = "walk"
  /\ UNCHANGED << cdepth, bottom_only, t, stack, produced >>
  /\ UNCHANGED tilevars

\* iter_corners(depth, bottom_only) called on its own
InitCorners ==
  /\ cdepth \in Depths
  /\ bottom_only \in BOOLEAN
  /\ t = 0
  /\ stack = << >>
  /\ produced = << >>
  /\ pc = "walk"
  /\ depth = cdepth
  /\ merge = "False"
  /\ sampler = "index"
  /\ cur = NoCall
  /\ parents = << >>
  /\ out = << >>
  /\ sampled = << >>
  /\ merged = << >>
  /\ self = [id |-> 1, ref |-> NewDict(1)]
  /\ other = NoRun

NextCorners == StartRoot \/ Prune \/ Descend \/ YieldTile \/ Skip \/ Finish
                 \/ Consume

SpecCorners == InitCorners /\ [][NextCorners]_vars

----------------------------------------------------------------------------
(* Images.  An image is a TileSize x TileSize array of integers, a sequence *)
(* of rows; a mosaic is 2 * TileSize on a side.                             *)

Max(a, b) == IF a >= b THEN a ELSE b

\* subsample(ul, ur, lr, ll, npix, increasing): the coordinate arrays (l, b)
\* of an npix x npix grid covering the quadrilateral
subsample(ul, ur, lr, ll, npix, increasing) ==
  LET at(i, j, d) == ul[d] + ((ur[d] - ul[d]) * (j - 1)) \div npix
                           + ((ll[d] - ul[d]) * (i - 1)) \div npix
  IN  << [i \in 1 .. npix |-> [j \in 1 .. npix |-> at(i, j, 1)]],
         [i \in 1 .. npix |-> [j \in 1 .. npix |-> at(i, j, 2)]] >>

\* data_sampler(l, b): an image of the shape of l and b.  "index" samples a
\* dataset that differs at every point, "lon" one that varies with l alone
data_sampler(s, l, b) ==
  [i \in 1 .. Len(l) |-> [j \in 1 .. Len(l[i]) |->
     IF s = "index" THEN b[i][j] * (2 * Face + 1) + l[i][j] ELSE l[i][j]]]

\* np.hstack((a, b)) and np.vstack((a, b))
hstack(a, b) == [i \in 1 .. Len(a) |-> a[i] \o b[i]]

vstack(a, b) == a \o b

\* a mistaken line 188: mosaic = np.vstack((np.hstack((ul, bl)), np.hstack((ur, br))))
MosaicTransposed(ul, ur, bl, br) == vstack(hstack(ul, bl), hstack(ur, br))

\* the mosaic of line 188
Mosaic(ul, ur, bl, br) == vstack(hstack(ul, ur), hstack(bl, br))

\* _default_merge(mosaic): the mean of every 2 x 2 block, cast back to the
\* (integer) dtype of the mosaic
_default_merge(mosaic) ==
  [i \in 1 .. Len(mosaic) \div 2 |-> [j \in 1 .. Len(mosaic[1]) \div 2 |->
     (mosaic[2 * i - 1][2 * j - 1] + mosaic[2 * i][2 * j - 1]
        + mosaic[2 * i - 1][2 * j] + mosaic[2 * i][2 * j]) \div 4]]

\* a caller's reducer: the maximum of every 2 x 2 block
custom_merge(mosaic) ==
  [i \in 1 .. Len(mosaic) \div 2 |-> [j \in 1 .. Len(mosaic[1]) \div 2 |->
     Max(Max(mosaic[2 * i - 1][2 * j - 1], mosaic[2 * i][2 * j - 1]),
         Max(mosaic[2 * i - 1][2 * j], mosaic[2 * i][2 * j]))]]

\* line 189: (merge or _default_merge)(mosaic), merge = True having been
\* replaced by _default_merge at line 138-139
ApplyMerge(m, mosaic) ==
  IF m = "Custom" THEN custom_merge(mosaic) ELSE _default_merge(mosaic)

\* the characters of the decimal digits
DigitChars == << "0", "1", "2", "3", "4", "5", "6", "7", "8", "9" >>

\* '%i' % v for an integer v >= 0: its decimal digits, as a sequence of
\* characters
RECURSIVE Dec(_)
Dec(v) ==
  IF v < 10 THEN << DigitChars[v + 1] >>
  ELSE Append(Dec(v \div 10), DigitChars[(v % 10) + 1])

\* os.path.join(a, b, c) on a POSIX system
PathJoin(a, b, c) == a \o << "/" >> \o b \o << "/" >> \o c

\* a mistaken line 161 that names the file '%i_%i.png' % (x, y)
PthColumnFirst(node) ==
  PathJoin(Dec(node.n), Dec(node.y),
           Dec(node.x) \o << "_" >> \o Dec(node.y) \o << ".", "p", "n", "g" >>)

\* line 161: pth = os.path.join('%i' % n, '%i' % y, '%i_%i.png' % (y, x)),
\* a string as its sequence of characters
Pth(node) ==
  PathJoin(Dec(node.n), Dec(node.y),
           Dec(node.y) \o << "_" >> \o Dec(node.x) \o << ".", "p", "n", "g" >>)

RECURSIVE SumLen(_, _)
SumLen(d, keys) ==
  IF keys = {} THEN 0
  ELSE LET p == CHOOSE q \in keys : TRUE
       IN  Cardinality(DOMAIN d[p]) + SumLen(d, keys \ {p})

\* line 163: nparent = sum(len(v) for v in parents.values())
nparent(d) == SumLen(d, DOMAIN d)

\* parents with the entry of parent p set to corners c (line 177-178)
SetEntry(d, p, c) ==
  [q \in DOMAIN d \cup {p} |-> IF q = p THEN c ELSE d[q]]

\* a mistaken line 183 that reads the entry and leaves it in the dictionary
PopEntryKept(d, p) == d

\* parents.pop(parent) (line 183)
PopEntry(d, p) == [q \in DOMAIN d \ {p} |-> d[q]]

\* a mistaken line 178: corners[(xc, xc)] = im
InsertOnDiagonal(d, p, xc, yc, im) ==
  LET old == IF p \in DOMAIN d THEN d[p] ELSE << >>
  IN  [key \in DOMAIN old \cup {<<xc, xc>>} |->
         IF key = <<xc, xc>> THEN im ELSE old[key]]

\* a mistaken test of line 180: if len(corners) <= 4: return
NotReadyOffByOne(corners) == Cardinality(DOMAIN corners) <= 4

\* the test of line 180: if len(corners) < 4: return
NotReady(corners) == Cardinality(DOMAIN corners) < 4

\* corners[(xc, yc)] = im on the entry parents[parent] of a defaultdict(dict)
Insert(d, p, xc, yc, im) ==
  LET old == IF p \in DOMAIN d THEN d[p] ELSE << >>
  IN  [key \in DOMAIN old \cup {<<xc, yc>>} |->
         IF key = <<xc, yc>> THEN im ELSE old[key]]

----------------------------------------------------------------------------
(* iter_tiles and _trickle_up *)

\* iter_tiles, line 146-147: sample the tile iter_corners has just yielded
Sample ==
  /\ pc = "yielded"
  /\ LET tile == produced[Len(produced)]
         c == tile.c
         lb == subsample(c[1], c[2], c[3], c[4], TileSize, tile.increasing)
         img == data_sampler(sampler, lb[1], lb[2])
     IN  /\ cur' = [im |-> img, node |-> tile.pos]
         /\ sampled' = Append(sampled, [node |-> tile.pos, c |-> c,
                                        increasing |-> tile.increasing,
                                        img |-> img])
  /\ pc' = "trickle"
  /\ UNCHANGED << depth, merge, sampler, cdepth, bottom_only, t, stack,
                  produced, parents, out, merged, self, other >>

\* a mistaken test of line 166: if depth > n
EmitsAbove(n) == depth > n

\* a mistaken test of line 166 that never emits the parent of the roots
EmitsNoRoot(n) == depth >= n /\ n >= 1

\* a mistaken test of line 166 that uses the clamped depth of line 143
EmitsClamped(n) == Max(depth, 1) >= n

\* the test of line 166
Emits(n) == depth >= n

\* the test of line 173: not merging and not at level 1
NoAccumulate(n) == merge = "False" /\ n > 1

\* the assertion of line 164
AssertOk == nparent(parents) <= 4 * Max(depth, 1)

\* one invocation of _trickle_up(im, node, parents, merge, depth), up to its
\* return or its recursive call at line 191
TrickleUp ==
  /\ pc = "trickle"
  /\ LET im == cur.im
         node == cur.node
         n == node.n
         pr == _parent(node)
         parent == pr[1]
         corners == Insert(parents, parent, pr[2], pr[3], im)
         mosaic == Mosaic(corners[<<0, 0>>], corners[<<1, 0>>],
                          corners[<<0, 1>>], corners[<<1, 1>>])
         newim == ApplyMerge(merge, mosaic)
     IN  IF ~AssertOk
         THEN /\ pc' = "failed"
              /\ UNCHANGED << cur, parents, out, merged >>
         ELSE /\ out' = IF Emits(n)
                        THEN Append(out, [pth |-> Pth(node), img |-> im])
                        ELSE out
              /\ IF n = 0 \/ NoAccumulate(n)
                 THEN /\ pc' = "walk"
                      /\ cur' = NoCall
                      /\ UNCHANGED << parents, merged >>
                 ELSE IF NotReady(corners)
                 THEN /\ parents' = SetEntry(parents, parent, corners)
                      /\ pc' = "walk"
                      /\ cur' = NoCall
                      /\ UNCHANGED merged
                 ELSE /\ parents' = PopEntry(SetEntry(parents, parent, corners),
                                             parent)
                      /\ merged' = Append(merged, [parent |-> parent,
                                                   mosaic |-> mosaic,
                                                   img |-> newim])
                      /\ cur' = [im |-> newim, node |-> parent]
                      /\ pc' = "trickle"
  /\ UNCHANGED << depth, merge, sampler, cdepth, bottom_only, t, stack,
                  produced, sampled, self, other >>

\* a mistaken line 144: bottom_only=False whatever merge is
BottomOnlyNever(m) == FALSE

\* line 144: bottom_only=merge, the truth value of merge
BottomOnly(m) == m # "False"

\* iter_tiles(data_sampler, depth, merge), line 138-144
Init ==
  /\ depth \in Depths
  /\ merge \in Merges
  /\ sampler \in Samplers
  /\ cdepth = Max(depth, 1)
  /\ bottom_only = BottomOnly(merge)
  /\ t = 0
  /\ stack = << >>
  /\ produced = << >>
  /\ pc = "walk"
  /\ cur = NoCall
  /\ parents = << >>
  /\ out = << >>
  /\ sampled = << >>
  /\ merged = << >>
  /\ self = [id |-> 1, ref |-> NewDict(1)]
  /\ other = NoRun

Next == StartRoot \/ Prune \/ Descend \/ YieldTile \/ Skip \/ Finish
          \/ Sample \/ TrickleUp

Spec == Init /\ [][Next]_vars

\* a run whose consumer keeps asking for the next tile until the generator
\* is exhausted (the for loop of toast, line 286)
SpecFair == Spec /\ WF_vars(Next)

----------------------------------------------------------------------------
(* Two runs of iter_tiles whose steps interleave.  The variables hold the   *)
(* state of the run that takes the next step; other holds the state of the  *)
(* suspended one.  A dictionary is an object: two runs whose names parents  *)
(* refer to the same object see each other's insertions.                    *)

\* the depth arguments explored for the first and for the second of two
\* interleaved runs
FirstDepths == {1, 2}

SecondDepths == {0, 1}

\* the state of the running generator, as a record
Running ==
  [depth |-> depth, merge |-> merge, sampler |-> sampler, cdepth |-> cdepth,
   bottom_only |-> bottom_only, t |-> t, stack |-> stack,
   produced |-> produced, pc |-> pc, cur |-> cur, parents |-> parents,
   out |-> out, sampled |-> sampled, merged |-> merged, self |-> self]

\* the state of iter_tiles(s, d, m) on its first step, as the call number id
Started(id, d, m, s) ==
  [depth |-> d, merge |-> m, sampler |-> s, cdepth |-> Max(d, 1),
   bottom_only |-> BottomOnly(m), t |-> 0, stack |-> << >>,
   produced |-> << >>, pc |-> "walk", cur |-> NoCall, parents |-> << >>,
   out |-> << >>, sampled |-> << >>, merged |-> << >>,
   self |-> [id |-> id, ref |-> NewDict(id)]]

\* the consumers turn to the other generator: it takes the next steps
Switch ==
  /\ other.pc \notin {"none", "done", "failed"}
  /\ other' = [Running EXCEPT
                 !.parents = IF other.self.ref = self.ref THEN << >>
                             ELSE parents]
  /\ depth' = other.depth
  /\ merge' = other.merge
  /\ sampler' = other.sampler
  /\ cdepth' = other.cdepth
  /\ bottom_only' = other.bottom_only
  /\ t' = other.t
  /\ stack' = other.stack
  /\ produced' = other.produced
  /\ pc' = other.pc
  /\ cur' = other.cur
  /\ parents' = IF other.self.ref = self.ref THEN parents ELSE other.parents
  /\ out' = other.out
  /\ sampled' = other.sampled
  /\ merged' = other.merged
  /\ self' = other.self

\* two calls of iter_tiles, the first with the sampler "index", the second
\* with "lon"
InitTwo ==
  /\ \E d \in FirstDepths, m \in Merges :
       LET r == Started(1, d, m, "index")
       IN  /\ depth = r.depth
           /\ merge = r.merge
           /\ sampler = r.sampler
           /\ cdepth = r.cdepth
           /\ bottom_only = r.bottom_only
           /\ t = r.t
           /\ stack = r.stack
           /\ produced = r.produced
           /\ pc = r.pc
           /\ cur = r.cur
           /\ parents = r.parents
           /\ out = r.out
           /\ sampled = r.sampled
           /\ merged = r.merged
           /\ self = r.self
  /\ \E d \in SecondDepths, m \in Merges :
       other = Started(2, d, m, "lon")

NextTwo == StartRoot \/ Prune \/ Descend \/ YieldTile \/ Skip \/ Finish
             \/ Sample \/ TrickleUp \/ Switch

SpecTwo == InitTwo /\ [][NextTwo]_vars

----------------------------------------------------------------------------
(* Properties of the traversal, checked under SpecCorners *)

\* the positions of the tiles iter_corners has yielded, in order
Seen(i) == produced[i].pos

\* tile address a lies strictly below tile address b in the quadtree
IsDescendant(a, b) ==
  /\ a.n > b.n
  /\ a.x \div 2 ^ (a.n - b.n) = b.x
  /\ a.y \div 2 ^ (a.n - b.n) = b.y

\* the level-1 address a tile address descends from (or is)
RootOf(a) == Pos(1, a.x \div 2 ^ (a.n - 1), a.y \div 2 ^ (a.n - 1))

\* the rank of a root in the order (0,0), (1,0), (1,1), (0,1)
RootRank(r) ==
  CASE r.x = 0 /\ r.y = 0 -> 1
    [] r.x = 1 /\ r.y = 0 -> 2
    [] r.x = 1 /\ r.y = 1 -> 3
    [] r.x = 0 /\ r.y = 1 -> 4

\* C1: for depth >= 1 and either bottom_only, the complete sequence of
\* iter_corners is in postfix order: a descendant of a yielded tile that is
\* itself yielded comes strictly earlier, and the subtrees of the four roots
\* follow one another in the order (0,0), (1,0), (1,1), (0,1), each of them
\* being walked.
C1_PostfixOrder ==
  (pc = "done" /\ cdepth >= 1) =>
    /\ \A i, j \in 1 .. Len(produced) :
         IsDescendant(Seen(j), Seen(i)) => j < i
    /\ \A i, j \in 1 .. Len(produced) :
         i < j => RootRank(RootOf(Seen(i))) <= RootRank(RootOf(Seen(j)))
    /\ { RootRank(RootOf(Seen(i))) : i \in 1 .. Len(produced) } = 1 .. 4

\* C1 witness: a finished walk of all levels that yielded a tile two levels
\* below a tile it yielded later
C1_Witness ==
  /\ pc = "done"
  /\ ~bottom_only
  /\ \E i, j \in 1 .. Len(produced) :
       /\ i < j
       /\ IsDescendant(Seen(i), Seen(j))
       /\ Seen(i).n = Seen(j).n + 2

\* the addresses of level n
Level(n) == { Pos(n, x, y) : x \in 0 .. 2 ^ n - 1, y \in 0 .. 2 ^ n - 1 }

\* C2: for depth d >= 1, iter_corners(d, bottom_only=True) yields tiles of
\* level d only, and by its end exactly 4^d of them, one per address of
\* level d.
C2_BottomOnly ==
  (cdepth >= 1 /\ bottom_only) =>
    /\ \A i \in 1 .. Len(produced) : Seen(i).n = cdepth
    /\ pc = "done" =>
         /\ Len(produced) = 4 ^ cdepth
         /\ { Seen(i) : i \in 1 .. Len(produced) } = Level(cdepth)

\* C2 witness: a finished bottom-only walk of depth 2 or more
C2_Witness ==
  /\ pc = "done"
  /\ bottom_only
  /\ cdepth >= 2
  /\ Len(produced) = 4 ^ cdepth

\* C3 as stated: for depth d >= 1, iter_corners(d, bottom_only=False) yields
\* (4^(d+1) - 1)/3 tiles in all.
C3_AsStated ==
  (pc = "done" /\ cdepth >= 1 /\ ~bottom_only) =>
    Len(produced) = (4 ^ (cdepth + 1) - 1) \div 3

\* C3 amended: for depth d >= 1, iter_corners(d, bottom_only=False) yields
\* (4^(d+1) - 4)/3 tiles in all: one per address of every level 1..d, 4^n at
\* level n, and none at level 0.
C3_AllLevels ==
  (pc = "done" /\ cdepth >= 1 /\ ~bottom_only) =>
    /\ Len(produced) = (4 ^ (cdepth + 1) - 4) \div 3
    /\ { Seen(i) : i \in 1 .. Len(produced) }
         = UNION { Level(n) : n \in 1 .. cdepth }

\* C3 witness: a finished walk of all levels of depth 2 or more
C3_Witness ==
  /\ pc = "done"
  /\ ~bottom_only
  /\ cdepth >= 2
  /\ \E i \in 1 .. Len(produced) : Seen(i).n = 1
  /\ \E i \in 1 .. Len(produced) : Seen(i).n = cdepth

\* C9: the four roots carry, in traversal order, the flags true, false,
\* true, false, and every tile the traversal visits or yields carries the
\* flag of the root it descends from, at every level.
C9_Orientation ==
  /\ \A i \in 1 .. Len(produced) :
       produced[i].increasing = (RootRank(RootOf(Seen(i))) \in {1, 3})
  /\ \A k \in 1 .. Len(stack) :
       stack[k].tile.increasing
         = (RootRank(RootOf(stack[k].tile.pos)) \in {1, 3})
  /\ (pc = "done" /\ cdepth = 1) =>
       [i \in 1 .. Len(produced) |-> produced[i].increasing]
         = << TRUE, FALSE, TRUE, FALSE >>

\* C9 witness: tiles of level 3 under two roots of different flags have
\* been yielded
C9_Witness ==
  \E i, j \in 1 .. Len(produced) :
    /\ Seen(i).n = 3
    /\ Seen(j).n = 3
    /\ produced[i].increasing
    /\ ~produced[j].increasing

\* the corner positions of the four children, in the order of _div4
CornerOrder == << <<0, 0>>, <<1, 0>>, <<0, 1>>, <<1, 1>> >>

\* C10: for the address a of every tile the traversal subdivides, each of
\* the four children of _div4 has level n+1 and _parent maps it back to a;
\* the children's addresses are pairwise distinct and their corner
\* positions are (0,0), (1,0), (0,1), (1,1) in this order.
C10_ParentOfChild ==
  \A k \in 1 .. Len(stack) :
    LET a == stack[k].tile
        ch == _div4(a.pos, a.c, a.increasing)
    IN  /\ Len(ch) = 4
        /\ \A i \in 1 .. 4 :
             /\ ch[i].pos.n = a.pos.n + 1
             /\ _parent(ch[i].pos)
                  = << a.pos, CornerOrder[i][1], CornerOrder[i][2] >>
        /\ \A i, j \in 1 .. 4 : i # j => ch[i].pos # ch[j].pos

\* C10 witness: the traversal is inside the tile of address (3, 5, 2),
\* having subdivided it and its parent (2, 2, 1)
C10_Witness ==
  /\ Len(stack) >= 3
  /\ stack[3].tile.pos = Pos(3, 5, 2)
  /\ stack[3].k > 0
  /\ stack[2].tile.pos = Pos(2, 2, 1)

----------------------------------------------------------------------------
(* Properties of the driver and the assembler, checked under Spec *)

\* the number a sequence of decimal digit characters denotes
RECURSIVE ParseNat(_)
ParseNat(s) ==
  IF s = << >> THEN 0
  ELSE ParseNat(SubSeq(s, 1, Len(s) - 1)) * 10
         + (CHOOSE k \in 1 .. 10 : DigitChars[k] = s[Len(s)]) - 1

\* the index of the first character c of the string s after index from
IndexOf(s, c, from) ==
  CHOOSE k \in from + 1 .. Len(s) :
    s[k] = c /\ \A j \in from + 1 .. k - 1 : s[j] # c

\* the level a path names: the digits before the first "/"
PathLevel(p) == ParseNat(SubSeq(p, 1, IndexOf(p, "/", 0) - 1))

\* the row a path names as its sub-directory: between the two "/"
PathDir(p) ==
  LET a == IndexOf(p, "/", 0)
  IN  ParseNat(SubSeq(p, a + 1, IndexOf(p, "/", a) - 1))

\* the row a path names in its file name: between the second "/" and "_"
PathRow(p) ==
  LET a == IndexOf(p, "/", IndexOf(p, "/", 0))
  IN  ParseNat(SubSeq(p, a + 1, IndexOf(p, "_", a) - 1))

\* the column a path names: between "_" and ".png"
PathColumn(p) ==
  LET u == IndexOf(p, "_", 0)
  IN  ParseNat(SubSeq(p, u + 1, IndexOf(p, ".", u) - 1))

\* the address a path <level>/<row>/<row>_<column>.png names
ParsePath(p) == Pos(PathLevel(p), PathColumn(p), PathDir(p))

\* the address of the i-th yielded tile, read back from its path
Addr(i) == ParsePath(out[i].pth)

\* the level the traversal samples: max(depth, 1) of line 143
Deepest == IF depth >= 1 THEN depth ELSE 1

\* C4: a complete run of iter_tiles of depth N >= 0, whatever merge is,
\* yields exactly one tile for each address (n, x, y) with 0 <= n <= N and
\* 0 <= x, y < 2^n and nothing else: no path twice, no address merged
\* twice, and depth2tiles(N) = (4^(N+1) - 1)/3 tiles in all.
C4_OneTilePerAddress ==
  (pc = "done" /\ depth >= 0) =>
    /\ { Addr(i) : i \in 1 .. Len(out) }
         = UNION { Level(n) : n \in 0 .. depth }
    /\ Cardinality({ out[i].pth : i \in 1 .. Len(out) }) = Len(out)
    /\ Cardinality({ merged[i].parent : i \in 1 .. Len(merged) })
         = Len(merged)
    /\ Len(out) = depth2tiles(depth)
    /\ Len(out) = (4 ^ (depth + 1) - 1) \div 3

\* C4 witness: a complete run of depth 2 or more with a custom reducer has
\* yielded tiles of level 0 and of level depth
C4_Witness ==
  /\ pc = "done"
  /\ depth >= 2
  /\ merge = "Custom"
  /\ \E i, j \in 1 .. Len(out) : Addr(i).n = 0 /\ Addr(j).n = depth

\* the path 0/0/0_0.png
RootPath == << "0", "/", "0", "/", "0", "_", "0", ".", "p", "n", "g" >>

\* C5 as stated: for depth >= 1 every yielded tile has a level in
\* 1..depth, and the four roots are never merged into a level-0 parent.
C5_AsStated ==
  depth >= 1 =>
    /\ \A i \in 1 .. Len(out) : Addr(i).n \in 1 .. depth
    /\ \A i \in 1 .. Len(merged) : merged[i].parent.n # 0

\* C5 amended: for depth >= 1 every yielded tile has a level in 0..depth;
\* the four roots are merged, once, into the level-0 parent, and that tile
\* is yielded once, as the last tile of the run, under the path 0/0/0_0.png.
C5_LevelsFromZero ==
  depth >= 1 =>
    /\ \A i \in 1 .. Len(out) : Addr(i).n \in 0 .. depth
    /\ pc = "done" =>
         /\ Len(out) > 0
         /\ out[Len(out)].pth = RootPath
         /\ Cardinality({ i \in 1 .. Len(out) : Addr(i).n = 0 }) = 1
         /\ Cardinality({ i \in 1 .. Len(merged) : merged[i].parent.n = 0 })
              = 1
         /\ merged[Len(merged)].parent = Pos(0, 0, 0)
         /\ out[Len(out)].img = merged[Len(merged)].img

\* C5 witness: a complete run of depth 1 or more whose last tile is the
\* merged level-0 tile
C5_Witness ==
  /\ pc = "done"
  /\ depth >= 1
  /\ Len(out) > 1
  /\ Addr(Len(out)).n = 0

\* the image data_sampler returned for the tile of address a
SampledImg(a) ==
  sampled[CHOOSE i \in 1 .. Len(sampled) : sampled[i].node = a].img

\* the image the merge function returned for the parent of address a
MergedImg(a) ==
  merged[CHOOSE i \in 1 .. Len(merged) : merged[i].parent = a].img

\* C6: with depth = 0 a complete run yields exactly one tile, of path
\* 0/0/0_0.png, whose image is the merge of the mosaic of the four sampled
\* root faces; no level-1 tile is yielded.
C6_DepthZero ==
  depth = 0 =>
    /\ \A i \in 1 .. Len(out) : Addr(i).n # 1
    /\ pc = "done" =>
         /\ Len(out) = 1
         /\ out[1].pth = RootPath
         /\ Len(sampled) = 4
         /\ { sampled[i].node : i \in 1 .. Len(sampled) } = Level(1)
         /\ out[1].img
              = ApplyMerge(merge,
                  vstack(hstack(SampledImg(Pos(1, 0, 0)),
                                SampledImg(Pos(1, 1, 0))),
                         hstack(SampledImg(Pos(1, 0, 1)),
                                SampledImg(Pos(1, 1, 1)))))

\* C6 witness: a complete run of depth 0 that has yielded a tile
C6_Witness ==
  /\ pc = "done"
  /\ depth = 0
  /\ Len(out) > 0
  /\ Len(merged) > 0

\* the image made for address a: sampled at the deepest level, merged above
ImgOf(a) == IF a.n = Deepest THEN SampledImg(a) ELSE MergedImg(a)

\* the mosaic of the images made for the four children of address a
ChildMosaic(a) ==
  vstack(hstack(ImgOf(Pos(a.n + 1, 2 * a.x, 2 * a.y)),
                ImgOf(Pos(a.n + 1, 2 * a.x + 1, 2 * a.y))),
         hstack(ImgOf(Pos(a.n + 1, 2 * a.x, 2 * a.y + 1)),
                ImgOf(Pos(a.n + 1, 2 * a.x + 1, 2 * a.y + 1))))

\* C7: with merge True or a custom reducer, the sampler is called for tiles
\* of level max(depth, 1) only, by the end of the run exactly once for each
\* of them, and every yielded tile above that level is the merge function
\* applied to the mosaic of the images made for its own four children.
C7_SampleDeepestMergeRest ==
  merge # "False" =>
    /\ \A i \in 1 .. Len(sampled) : sampled[i].node.n = Deepest
    /\ pc = "done" =>
         /\ Len(sampled) = 4 ^ Deepest
         /\ { sampled[i].node : i \in 1 .. Len(sampled) } = Level(Deepest)
         /\ \A i \in 1 .. Len(out) :
              /\ out[i].img = ImgOf(Addr(i))
              /\ Addr(i).n < Deepest =>
                   out[i].img = ApplyMerge(merge, ChildMosaic(Addr(i)))

\* C7 witness: a complete merging run of depth 3 or more has yielded a
\* level-1 tile, at least two levels above the sampled ones
C7_Witness ==
  /\ pc = "done"
  /\ merge # "False"
  /\ depth >= 3
  /\ \E i \in 1 .. Len(out) : Addr(i).n = 1

\* C8: with merge = False every yielded tile is the image the sampler
\* returned for the tile's own corners, and none is the result of a merge.
C8_AllSampled ==
  merge = "False" =>
    \A i \in 1 .. Len(out) :
      /\ \E j \in 1 .. Len(sampled) :
           /\ sampled[j].node = Addr(i)
           /\ sampled[j].img = out[i].img
      /\ \A j \in 1 .. Len(merged) : merged[j].parent # Addr(i)

\* C11: every tile of address (level, x, y) is yielded under the path
\* "<level>/<y>/<y>_<x>.png": the row y is the sub-directory and the first
\* number of the file name, the column x the second.  The address can be
\* read back from the path, so distinct addresses have distinct paths (here
\* for every address down to level MaxDepth + 1); level 3, x 5, y 2 gives
\* 3/2/2_5.png.
C11_PathOfAddress ==
  /\ \A n \in 0 .. MaxDepth + 1 : \A a \in Level(n) : ParsePath(Pth(a)) = a
  /\ Pth(Pos(3, 5, 2))
       = << "3", "/", "2", "/", "2", "_", "5", ".", "p", "n", "g" >>
  /\ [][out' # out =>
          LET a == cur.node
              p == out'[Len(out')].pth
          IN  /\ Len(out') = Len(out) + 1
              /\ p = Dec(a.n) \o << "/" >> \o Dec(a.y) \o << "/" >>
                       \o Dec(a.y) \o << "_" >> \o Dec(a.x)
                       \o << ".", "p", "n", "g" >>
              /\ PathLevel(p) = a.n
              /\ PathDir(p) = a.y
              /\ PathRow(p) = a.y
              /\ PathColumn(p) = a.x]_vars

\* C11 witness: the tile of level 3, x 5, y 2 has been yielded as 3/2/2_5.png
C11_Witness ==
  \E i \in 1 .. Len(out) :
    out[i].pth = << "3", "/", "2", "/", "2", "_", "5", ".", "p", "n", "g" >>

----------------------------------------------------------------------------
(* Properties of two interleaved runs, checked under SpecTwo *)

\* the image a run of iter_tiles(s, d, m) on its own makes for a tile: the
\* sampler's at the deepest level, and at every level when m is False, the
\* merge of the mosaic of its four children's images otherwise
RECURSIVE SoloImage(_, _, _, _)
SoloImage(tile, d, m, s) ==
  IF tile.pos.n >= Max(d, 1) \/ m = "False"
  THEN LET lb == subsample(tile.c[1], tile.c[2], tile.c[3], tile.c[4],
                           TileSize, tile.increasing)
       IN  data_sampler(s, lb[1], lb[2])
  ELSE LET ch == _div4(tile.pos, tile.c, tile.increasing)
       IN  ApplyMerge(m, vstack(hstack(SoloImage(ch[1], d, m, s),
                                       SoloImage(ch[2], d, m, s)),
                                hstack(SoloImage(ch[3], d, m, s),
                                       SoloImage(ch[4], d, m, s))))

\* what such a run yields for the subtree of a tile: the subtrees of the
\* four children in order, then the tile itself
RECURSIVE SoloTiles(_, _, _, _)
SoloTiles(tile, d, m, s) ==
  LET ch == _div4(tile.pos, tile.c, tile.increasing)
      below == IF tile.pos.n >= Max(d, 1) THEN << >>
               ELSE SoloTiles(ch[1], d, m, s) \o SoloTiles(ch[2], d, m, s)
                      \o SoloTiles(ch[3], d, m, s)
                      \o SoloTiles(ch[4], d, m, s)
  IN  IF tile.pos.n <= d
      THEN Append(below, [pth |-> Pth(tile.pos),
                          img |-> SoloImage(tile, d, m, s)])
      ELSE below

\* the whole sequence a run of iter_tiles(s, d, m) yields on its own
SoloOut(d, m, s) ==
  LET roots == SoloTiles(todo[1], d, m, s) \o SoloTiles(todo[2], d, m, s)
                 \o SoloTiles(todo[3], d, m, s) \o SoloTiles(todo[4], d, m, s)
      top == ApplyMerge(m, vstack(hstack(SoloImage(todo[1], d, m, s),
                                         SoloImage(todo[2], d, m, s)),
                                  hstack(SoloImage(todo[4], d, m, s),
                                         SoloImage(todo[3], d, m, s))))
  IN  IF d >= 0
      THEN Append(roots, [pth |-> Pth(Pos(0, 0, 0)), img |-> top])
      ELSE roots

\* C12: of two runs of iter_tiles whose steps interleave in any order, each
\* has a dictionary parents of its own, none fails, and each, once it ends,
\* has yielded exactly the sequence of (path, image) pairs it yields alone.
C12_Independent ==
  /\ other.pc # "none" => self.ref # other.self.ref
  /\ pc # "failed"
  /\ other.pc # "failed"
  /\ pc = "done" => out = SoloOut(depth, merge, sampler)
  /\ other.pc = "done" => other.out = SoloOut(other.depth, other.merge,
                                              other.sampler)

\* C12 witness: both runs have ended, each having yielded tiles before the
\* other ended, the two differing in depth and merge
C12_Witness ==
  /\ pc = "done"
  /\ other.pc = "done"
  /\ depth # other.depth
  /\ merge # other.merge
  /\ Len(out) > 1
  /\ Len(other.merged) > 1

----------------------------------------------------------------------------
(* Depths below 1 *)

\* C13 as stated: iter_corners(depth, bottom_only=False) with depth < 1
\* yields exactly the four root tiles.
C13_AsStated ==
  (pc = "done" /\ cdepth < 1 /\ ~bottom_only) =>
    { Seen(i) : i \in 1 .. Len(produced) } = Level(1)

\* C13 amended: iter_corners(depth, bottom_only=False) with depth < 1 visits
\* the four roots and returns from each at once: it never goes below a root
\* and yields no tile at all.
C13_NothingBelowOne ==
  (cdepth < 1 /\ ~bottom_only) =>
    /\ produced = << >>
    /\ \A k \in 1 .. Len(stack) : stack[k].tile.pos.n = 1 /\ stack[k].k = 0
    /\ Len(stack) <= 1
    /\ pc = "done" => t = 4

\* C13 witness: a walk of depth below 1 that is not bottom-only has ended,
\* all four roots visited
C13_Witness ==
  /\ pc = "done"
  /\ cdepth < 1
  /\ ~bottom_only
  /\ t = 4

\* C14: a run of iter_tiles with a negative depth fails at once: it samples
\* no tile, merges nothing and does not end normally.
C14_NegativeDepthFails ==
  depth < 0 =>
    /\ sampled = << >>
    /\ merged = << >>
    /\ pc # "done"

----------------------------------------------------------------------------
(* The accumulator of pending parents *)

\* the accumulator as line 176-178 leaves it when the step about to run
\* stores its image, and as it stands otherwise
AfterInsert ==
  IF pc = "trickle" /\ cur.node.n >= 1 /\ ~NoAccumulate(cur.node.n)
  THEN LET pr == _parent(cur.node)
       IN  SetEntry(parents, pr[1],
                    Insert(parents, pr[1], pr[2], pr[3], cur.im))
  ELSE parents

\* C15: the images pending in the accumulator never number more than
\* 4 * max(depth, 1), before and after every insertion, so the assertion of
\* line 164 holds at every step of _trickle_up, the recursive ones included.
C15_PendingBounded ==
  /\ nparent(parents) <= 4 * Max(depth, 1)
  /\ nparent(AfterInsert) <= 4 * Max(depth, 1)
  /\ pc = "trickle" => AssertOk
  /\ pc # "failed"

\* C15 witness: a recursive step of _trickle_up is about to run with images
\* pending on every level above it
C15_Witness ==
  /\ pc = "trickle"
  /\ depth >= 2
  /\ cur.node.n = 1
  /\ nparent(parents) = 3
  /\ Len(merged) > 1
  /\ AssertOk

\* C16: whenever the accumulator can be observed (at every yield and at the
\* start of every step of _trickle_up) each of its entries holds one, two or
\* three images under corner positions of {0,1} x {0,1}, and within a step an
\* entry never holds more than four.
C16_EntrySizes ==
  /\ \A p \in DOMAIN parents :
       /\ Cardinality(DOMAIN parents[p]) \in 1 .. 3
       /\ DOMAIN parents[p] \subseteq {0, 1} \X {0, 1}
  /\ \A p \in DOMAIN AfterInsert : Cardinality(DOMAIN AfterInsert[p]) <= 4

\* C16 witness: a step is about to store the fourth image of an entry while
\* another entry holds fewer
C16_Witness ==
  /\ pc = "trickle"
  /\ \E p \in DOMAIN AfterInsert : Cardinality(DOMAIN AfterInsert[p]) = 4
  /\ \E p \in DOMAIN parents : Cardinality(DOMAIN parents[p]) = 1
  /\ \E p \in DOMAIN parents : Cardinality(DOMAIN parents[p]) = 3

----------------------------------------------------------------------------
(* The order of the output of a merging run *)

\* the four children of address a in the order the traversal visits them:
\* the roots in the order of todo, the others in the order of _div4
ChildrenOf(a) ==
  IF a.n = 0
  THEN [k \in 1 .. 4 |-> todo[k].pos]
  ELSE << Pos(a.n + 1, 2 * a.x, 2 * a.y),
          Pos(a.n + 1, 2 * a.x + 1, 2 * a.y),
          Pos(a.n + 1, 2 * a.x, 2 * a.y + 1),
          Pos(a.n + 1, 2 * a.x + 1, 2 * a.y + 1) >>

\* the number of tiles below address a that a run of this depth yields
YieldedBelow(a) ==
  IF depth > a.n THEN (4 ^ (depth - a.n + 1) - 4) \div 3 ELSE 0

\* a merged tile is in hand and has not been yielded yet
MergedInHand ==
  /\ pc = "trickle"
  /\ merge # "False"
  /\ cur.node.n < Deepest

\* C17 as stated: in the output of a merging run every merged tile comes
\* after all four of its children.
C17_AsStated ==
  merge # "False" =>
    \A i \in 1 .. Len(out) :
      Addr(i).n < Deepest =>
        \A k \in 1 .. 4 :
          \E j \in 1 .. i - 1 : Addr(j) = ChildrenOf(Addr(i))[k]

\* C17 amended: in a merging run a tile is merged only when its four children
\* are made, and is yielded in the very next step, before anything else is
\* sampled or yielded: the last tile sampled lies below it, and when
\* depth >= 1 its four children have been yielded, the fourth of them last,
\* at the end of an unbroken block of all the tiles below the parent.  With
\* depth < 1 the children of the level-0 tile are sampled and never yielded.
C17_MergedAfterChildren ==
  /\ [](MergedInHand =>
          LET a == cur.node
              size == YieldedBelow(a)
          IN  /\ merged[Len(merged)].parent = a
              /\ merged[Len(merged)].img = cur.im
              /\ IsDescendant(sampled[Len(sampled)].node, a)
              /\ \A j \in 1 .. Len(out) : Addr(j) # a
              /\ \A k \in 1 .. 4 :
                   LET c == ChildrenOf(a)[k]
                   IN  /\ \/ \E i \in 1 .. Len(sampled) : sampled[i].node = c
                          \/ \E i \in 1 .. Len(merged) : merged[i].parent = c
                       /\ (depth >= c.n)
                            = (\E j \in 1 .. Len(out) : Addr(j) = c)
              /\ depth > a.n =>
                   /\ Len(out) >= size
                   /\ Addr(Len(out)) = ChildrenOf(a)[4]
                   /\ \A j \in Len(out) - size + 1 .. Len(out) :
                        IsDescendant(Addr(j), a)
                   /\ Len(out) > size =>
                        ~IsDescendant(Addr(Len(out) - size), a))
  /\ [][(MergedInHand /\ Emits(cur.node.n)) =>
          /\ out' = Append(out, [pth |-> Pth(cur.node), img |-> cur.im])
          /\ sampled' = sampled]_vars

\* C17 witness: the third root of a run of depth 3 with the default merge has
\* just been merged, the output of two other roots before it
C17_Witness ==
  /\ MergedInHand
  /\ merge = "True"
  /\ depth = 3
  /\ cur.node = Pos(1, 1, 1)
  /\ Len(out) = 3 * YieldedBelow(cur.node) + 2

----------------------------------------------------------------------------
(* The placement of the children in a mosaic *)

\* the tile (address, corners, orientation) the traversal makes for address a
RECURSIVE TileAt(_)
TileAt(a) ==
  IF a.n = 1
  THEN todo[CHOOSE k \in 1 .. 4 : todo[k].pos = a]
  ELSE LET p == TileAt(_parent(a)[1])
           ch == _div4(p.pos, p.c, p.increasing)
       IN  ch[CHOOSE k \in 1 .. 4 : ch[k].pos = a]

\* the footprint (ul, ur, lr, ll) of address a; the level-0 tile covers the
\* four root faces, its corners are their outer corners
Footprint(a) ==
  IF a.n = 0
  THEN << level1[1][1], level1[2][2], level1[3][3], level1[4][4] >>
  ELSE TileAt(a).c

\* the place in (ul, ur, lr, ll) of the corner at position (qx, qy)
CornerAt(qx, qy) == IF qy = 0 THEN 1 + qx ELSE 4 - qx

\* the image made for address a, by the sampler or by a merge
ImgMade(a) ==
  IF \E i \in 1 .. Len(sampled) : sampled[i].node = a
  THEN SampledImg(a)
  ELSE MergedImg(a)

\* the TileSize x TileSize quadrant of mosaic m at column qx and row qy
Quadrant(m, qx, qy) ==
  [i \in 1 .. TileSize |-> [j \in 1 .. TileSize |->
     m[qy * TileSize + i][qx * TileSize + j]]]

\* C18: in every mosaic, that of the level-0 parent of the roots included,
\* the quadrant at column qx and row qy holds the image of the child of
\* address (2x + qx, 2y + qy), whose corner position is (qx, qy) and whose
\* footprint contains that very corner of the parent's footprint: (0,0) is
\* upper left, (1,0) upper right, (0,1) lower left, (1,1) lower right.
C18_MosaicByCorner ==
  merged # << >> =>
    LET e == merged[Len(merged)]
        a == e.parent
    IN  /\ Len(e.mosaic) = 2 * TileSize
        /\ \A i \in 1 .. 2 * TileSize : Len(e.mosaic[i]) = 2 * TileSize
        /\ \A qx \in {0, 1}, qy \in {0, 1} :
             LET c == Pos(a.n + 1, 2 * a.x + qx, 2 * a.y + qy)
             IN  /\ _parent(c) = <<a, qx, qy>>
                 /\ Quadrant(e.mosaic, qx, qy) = ImgMade(c)
                 /\ TileAt(c).c[CornerAt(qx, qy)]
                      = Footprint(a)[CornerAt(qx, qy)]

\* C18 witness: the last mosaic made is that of the level-0 tile, of four
\* merged roots whose images all differ
C18_Witness ==
  /\ merged # << >>
  /\ merged[Len(merged)].parent = Pos(0, 0, 0)
  /\ depth = 2
  /\ merge = "True"
  /\ Cardinality({ Quadrant(merged[Len(merged)].mosaic, qx, qy) :
                     qx \in {0, 1}, qy \in {0, 1} }) = 4

----------------------------------------------------------------------------
(* Termination *)

\* the number of images stored in the accumulator so far: the sampled ones
\* that line 173 lets through and the merged ones of level 1 or more
InsertCount ==
  Cardinality({ i \in 1 .. Len(sampled) :
                  ~NoAccumulate(sampled[i].node.n) })
    + Cardinality({ i \in 1 .. Len(merged) : merged[i].parent.n >= 1 })

\* the addresses of those images
InsertedNodes ==
  { sampled[i].node : i \in { j \in 1 .. Len(sampled) :
                                ~NoAccumulate(sampled[j].node.n) } }
    \cup { merged[i].parent : i \in { j \in 1 .. Len(merged) :
                                        merged[j].parent.n >= 1 } }

\* C19: a run consumed to its end, whatever the depth (0 and negative
\* included) and the merge setting, ends after finitely many steps without a
\* failed assertion; at its end the accumulator is empty and every image
\* that was stored in it has gone into exactly one mosaic.
C19_TerminatesEmpty ==
  /\ <>(pc = "done")
  /\ [](pc # "failed")
  /\ [](pc = "done" =>
          /\ DOMAIN parents = {}
          /\ stack = << >>
          /\ InsertCount = 4 * Len(merged)
          /\ Cardinality(InsertedNodes) = InsertCount
          /\ \A c \in InsertedNodes :
               LET pr == _parent(c)
                   uses == { i \in 1 .. Len(merged) :
                               merged[i].parent = pr[1] }
               IN  /\ Cardinality(uses) = 1
                   /\ \A i \in uses :
                        Quadrant(merged[i].mosaic, pr[2], pr[3])
                          = ImgMade(c))

\* C19 witness: a run of negative depth has ended, its four sampled roots
\* merged once
C19_Witness ==
  /\ pc = "done"
  /\ depth < 0
  /\ Len(sampled) = 4
  /\ Len(merged) = 1
  /\ DOMAIN parents = {}

----------------------------------------------------------------------------
(* The shape of the accumulator *)

\* C20: the accumulator never holds two entries of one level, before or
\* after an insertion; its pending parents lie on one line of descent, and
\* each of them is the parent or an ancestor of the tile in hand, be it the
\* tile the traversal has just yielded or the tile _trickle_up is absorbing.
C20_AncestorChain ==
  /\ \A p \in DOMAIN AfterInsert, q \in DOMAIN AfterInsert :
       /\ p.n = q.n => p = q
       /\ p # q => IsDescendant(p, q) \/ IsDescendant(q, p)
  /\ DOMAIN parents \subseteq DOMAIN AfterInsert
  /\ Cardinality(DOMAIN AfterInsert) <= Max(depth, 1)
  /\ pc = "trickle" =>
       \A p \in DOMAIN AfterInsert : IsDescendant(cur.node, p)
  /\ pc = "yielded" =>
       \A p \in DOMAIN parents :
         IsDescendant(produced[Len(produced)].pos, p)

\* C20 witness: a sampled tile of level 3 is being absorbed while parents of
\* levels 0, 1 and 2 are pending
C20_Witness ==
  /\ pc = "trickle"
  /\ cur.node.n = 3
  /\ { p.n : p \in DOMAIN parents } = {0, 1, 2}
  /\ cur.node.x > 4

====
